---- MODULE Spec2Model ----
(***************************************************************************)
(* DefaultLayoutProvider of MovieVis: the layout of actors' filmographies  *)
(* as Bezier curves through movie points (director axis x, date axis y).   *)
(*                                                                         *)
(* Arithmetic.  The program computes in doubles; the model computes the    *)
(* same expressions exactly, in integer multiples of 1/UnitsPerOne.  With  *)
(* UnitsPerOne = 42048 = 24 * 365 * 24 / 5 a date position, a third of a   *)
(* difference of date positions and the three halvings of a subdivision at *)
(* 0.5 are all integers.  An offset along a normalized perpendicular is    *)
(* irrational in general, so it is carried symbolically in the point: the  *)
(* signed number of offsetIncrements and the direction before normalize(). *)
(***************************************************************************)
EXTENDS Integers, Sequences, FiniteSets, TLC

\* ---------------------------------------------------------------- bounds
NumActors == 3
NumMovies == 3
NumDirectors == 2

\* The actors, movies and directors of the Model.  The Model owns them for
\* the time of init(), so an actor's weak_ptr<Movie> always locks.
Actors == 1..NumActors
Movies == 1..NumMovies
Directors == 1..NumDirectors

\* What weak_ptr<Person>::lock() yields for an expired director reference.
NullPerson == 0
DirectorKeys == Directors \cup {NullPerson}

\* ------------------------------------------------------------- constants
\* Length 1.0 in model units; a multiple of 8 * 3 * 365 * 24 / 5.
UnitsPerOne == (365 * 24 * 24) \div 5
EARLIEST_YEAR == 1985
LATEST_YEAR == 2009
\* static const double DISTANCE = 4.0
DISTANCE == 4 * UnitsPerOne
\* static const double MAX_DELTA = 5.0
MAX_DELTA == 5 * UnitsPerOne

\* ----------------------------------------------------------------- dates
IsLeapYear(y) == (y % 4 = 0 /\ y % 100 # 0) \/ y % 400 = 0
DaysInYear(y) == IF IsLeapYear(y) THEN 366 ELSE 365

\* boost::gregorian::date as <<year, day_of_year>>.  The release dates of the
\* model's movies: more than 24 years apart, so that MAX_DELTA clamps.
Dates == {<<1985, 1>>, <<2000, 366>>, <<2009, 365>>}

\* operator< of boost::gregorian::date
DateLess(d1, d2) == d1[1] < d2[1] \/ (d1[1] = d2[1] /\ d1[2] < d2[2])

\* dateAsYear = year + day_of_year / 365.0, as a number of 365ths.
DateAsYear365(theDate) == 365 * theDate[1] + theDate[2]

GetDateYPosition(theDate) ==
    LET UNITS_PER_YEAR == (5 * UnitsPerOne) \div (LATEST_YEAR - EARLIEST_YEAR)
        yearSpan == (LATEST_YEAR - EARLIEST_YEAR) * UNITS_PER_YEAR
        yearsAfterEarliestYear365 == DateAsYear365(theDate) - 365 * EARLIEST_YEAR
    IN  (yearsAfterEarliestYear365 * UNITS_PER_YEAR) \div 365 - yearSpan \div 2

\* ------------------------------------------------------ points and curves
\* A point: coordinates, and `off`, the offset vector added to it: <<>> for
\* none, else <<amount, dx, dy, dz>> standing for
\* amount * offsetIncrement * normalize(dx, dy, dz).
Point3d(x, y, z) == [x |-> x, y |-> y, z |-> z, off |-> <<>>]

BezierCurve(p0, p1, p2, p3) == [P0 |-> p0, P1 |-> p1, P2 |-> p2, P3 |-> p3]

\* (1 - t) * p + t * q at t = 0.5
Halfway(p, q) ==
    [x |-> (p.x + q.x) \div 2, y |-> (p.y + q.y) \div 2, z |-> (p.z + q.z) \div 2,
     off |-> p.off]

\* BezierCurve::subdivideAt(0.5): de Casteljau.
SubdivideAtHalf(c) ==
    LET p01 == Halfway(c.P0, c.P1)
        p12 == Halfway(c.P1, c.P2)
        p23 == Halfway(c.P2, c.P3)
        p012 == Halfway(p01, p12)
        p123 == Halfway(p12, p23)
        p0123 == Halfway(p012, p123)
    IN  <<BezierCurve(c.P0, p01, p012, p0123), BezierCurve(p0123, p123, p23, c.P3)>>

\* Point3d + Vector3d, the vector being offsetAmount * offsetDirection.
PlusOffset(p, offsetVector) == [p EXCEPT !.off = offsetVector]

\* ------------------------------------------------------------------ state
VARIABLES
    model,                  \* the Model read by init(): movies and actors
    directorXPositions,     \* hash_map<shared_ptr<Person>, double>
    actorCurves,            \* the ActorCurve objects, by order of creation
    actorCurvesByActor,     \* actor -> vector of ActorCurve
    actorCurvesByMoviePair, \* MoviePair -> vector of ActorCurve
    pc,                     \* where init() is: "actors", "diverge", "done"
    actorsIter,             \* the actor init()'s loop is at
    sortedMovies,           \* actor -> moviesStarredIn as sort() left it
    queryLog,               \* the calls of getDirectorXPosition: <<director, result>>
    datePositions           \* two calls of getDateYPosition: <<date, result>> each

vars == <<model, directorXPositions, actorCurves, actorCurvesByActor,
          actorCurvesByMoviePair, pc, actorsIter, sortedMovies, queryLog,
          datePositions>>

\* The members the operations read and write, threaded through them.
Layout ==
    [directorXPositions |-> directorXPositions,
     actorCurves |-> actorCurves,
     actorCurvesByActor |-> actorCurvesByActor,
     actorCurvesByMoviePair |-> actorCurvesByMoviePair,
     queryLog |-> queryLog]

EmptyMap == [k \in {} |-> 0]

\* ------------------------------------------------------------ the model
\* What Person::getMoviesStarredIn may return: the movies of the actor, here
\* listed latest first.  sort() below leaves the same results for every
\* order of the list, so the other orders add no layout.
LatestFirst(movieSet) ==
    CHOOSE s \in [1..Cardinality(movieSet) -> movieSet] :
        \A i, j \in 1..Cardinality(movieSet) : i < j => s[i] > s[j]

MovieLists == {LatestFirst(movieSet) : movieSet \in SUBSET Movies}

\* Movies and directors have no order of their own, so every model is one
\* with the movies numbered by release date and the directors by their first
\* movie.
NumberedByRelease(releaseDate) ==
    \A m1, m2 \in Movies : m1 < m2 => ~DateLess(releaseDate[m2], releaseDate[m1])

NumberedByFirstMovie(director) ==
    \A m \in Movies : \A d \in Directors :
        (director[m] = d /\ d > 1) => \E m0 \in 1..(m - 1) : director[m0] = d - 1

Models ==
    [releaseDate : {f \in [Movies -> Dates] : NumberedByRelease(f)},
     director : {f \in [Movies -> DirectorKeys] : NumberedByFirstMovie(f)},
     moviesStarredIn : [Actors -> MovieLists]]

\* Movie::weakPtrReleaseDateSortPredicate
WeakPtrReleaseDateSortPredicate(m1, m2) ==
    DateLess(model.releaseDate[m1], model.releaseDate[m2])

\* The results std::sort may leave: it orders by the predicate and promises
\* nothing about the order of elements the predicate does not order.
IsSortOf(s, movies) ==
    /\ Len(s) = Len(movies)
    /\ \E p \in Permutations(1..Len(movies)) : \A i \in 1..Len(movies) : s[i] = movies[p[i]]
    /\ \A i, j \in 1..Len(s) : i < j => ~WeakPtrReleaseDateSortPredicate(s[j], s[i])

SortResults(movies) ==
    {s \in [1..Len(movies) -> {movies[i] : i \in 1..Len(movies)}] : IsSortOf(s, movies)}

\* ------------------------------------------------------ coordinate mapper
\* Faulty variant: the size of the table read after the entry is inserted.
GetDirectorXPositionSizeAfterInsert(L, director) ==
    IF director \notin DOMAIN L.directorXPositions
    THEN LET xPosition == DISTANCE * (Cardinality(DOMAIN L.directorXPositions) + 1)
         IN  [L |-> [L EXCEPT !.directorXPositions = @ @@ (director :> xPosition),
                              !.queryLog = Append(@, <<director, xPosition>>)],
              x |-> xPosition]
    ELSE [L |-> [L EXCEPT !.queryLog = Append(@, <<director, L.directorXPositions[director]>>)],
          x |-> L.directorXPositions[director]]

GetDirectorXPosition(L, director) ==
    IF director \notin DOMAIN L.directorXPositions
    THEN LET xPosition == DISTANCE * Cardinality(DOMAIN L.directorXPositions)
         IN  [L |-> [L EXCEPT !.directorXPositions = @ @@ (director :> xPosition),
                              !.queryLog = Append(@, <<director, xPosition>>)],
              x |-> xPosition]
    ELSE [L |-> [L EXCEPT !.queryLog = Append(@, <<director, L.directorXPositions[director]>>)],
          x |-> L.directorXPositions[director]]

GetMoviePoint(L, movie, z) ==
    LET r == GetDirectorXPosition(L, model.director[movie])
    IN  [L |-> r.L, p |-> Point3d(r.x, GetDateYPosition(model.releaseDate[movie]), z)]

\* ------------------------------------------------------------ layout index
\* MoviePair(m1, m2): a key equal to MoviePair(m2, m1).
MoviePair(first, second) == <<first, second>>

SamePair(k1, k2) == {k1[1], k1[2]} = {k2[1], k2[2]}

\* actorCurvesByMoviePair.find(moviePair): the keys found (none or one).
FindMoviePair(L, moviePair) ==
    {k \in DOMAIN L.actorCurvesByMoviePair : SamePair(k, moviePair)}

\* Faulty variant: the actor's vector made anew for every curve.
AddActorCurveNewVector(L, actorCurve, moviePair) ==
    LET id == Len(L.actorCurves) + 1
        actor == actorCurve.actor
        byActor ==
            IF actor \notin DOMAIN L.actorCurvesByActor
            THEN L.actorCurvesByActor @@ (actor :> <<id>>)
            ELSE [L.actorCurvesByActor EXCEPT ![actor] = <<id>>]
        found == FindMoviePair(L, moviePair)
        byPair ==
            IF found = {}
            THEN L.actorCurvesByMoviePair @@ (moviePair :> <<id>>)
            ELSE [L.actorCurvesByMoviePair EXCEPT ![CHOOSE k \in found : TRUE] = Append(@, id)]
    IN  [L EXCEPT !.actorCurves = Append(@, actorCurve),
                  !.actorCurvesByActor = byActor,
                  !.actorCurvesByMoviePair = byPair]

AddActorCurve(L, actorCurve, moviePair) ==
    LET id == Len(L.actorCurves) + 1
        actor == actorCurve.actor
        byActor ==
            IF actor \notin DOMAIN L.actorCurvesByActor
            THEN L.actorCurvesByActor @@ (actor :> <<id>>)
            ELSE [L.actorCurvesByActor EXCEPT ![actor] = Append(@, id)]
        found == FindMoviePair(L, moviePair)
        byPair ==
            IF found = {}
            THEN L.actorCurvesByMoviePair @@ (moviePair :> <<id>>)
            ELSE [L.actorCurvesByMoviePair EXCEPT ![CHOOSE k \in found : TRUE] = Append(@, id)]
    IN  [L EXCEPT !.actorCurves = Append(@, actorCurve),
                  !.actorCurvesByActor = byActor,
                  !.actorCurvesByMoviePair = byPair]

GetActorCurves(actor) ==
    IF actor \notin DOMAIN actorCurvesByActor THEN <<>> ELSE actorCurvesByActor[actor]

\* ------------------------------------------------------------ curve builder
Abs(x) == IF x < 0 THEN -x ELSE x
Sign(x) == IF x < 0 THEN -1 ELSE IF x > 0 THEN 1 ELSE 0

\* lastMoviePtr->getDirector().lock() == moviePtr->getDirector().lock()
SameDirector(lastMovie, movie) == model.director[lastMovie] = model.director[movie]

\* nominalDelta /= 3.0 when the directors compare equal
NominalDelta(lastAnchor, anchor, lastMovie, movie) ==
    IF SameDirector(lastMovie, movie)
    THEN (anchor.y - lastAnchor.y) \div 3
    ELSE anchor.y - lastAnchor.y

ClampDelta(nominalDelta) ==
    IF Abs(nominalDelta) <= MAX_DELTA THEN nominalDelta ELSE MAX_DELTA * Sign(nominalDelta)

\* The movie the loop's pair and director test take as the previous one:
\* lastMoviePtr, set before the loop and not assigned in it.
LastMoviePtr(movies, i) == movies[1]

\* The loop of initActorCurves from its i-th movie on.
RECURSIVE CurveLoop(_, _, _, _, _)
CurveLoop(L, actor, movies, i, lastAnchor) ==
    IF i > Len(movies) THEN L
    ELSE LET lastMoviePtr == LastMoviePtr(movies, i)
             moviePtr == movies[i]
             r == GetMoviePoint(L, moviePtr, 0)
             anchor == r.p
             delta == ClampDelta(NominalDelta(lastAnchor, anchor, lastMoviePtr, moviePtr))
             handle1 == Point3d(lastAnchor.x, lastAnchor.y + delta, lastAnchor.z)
             handle2 == Point3d(anchor.x, anchor.y - delta, anchor.z)
             actorCurve == [actor |-> actor,
                            curves |-> <<BezierCurve(lastAnchor, handle1, handle2, anchor)>>]
         IN  CurveLoop(AddActorCurve(r.L, actorCurve, MoviePair(lastMoviePtr, moviePtr)),
                       actor, movies, i + 1, anchor)

\* initActorCurves after its sort(), which left `movies`.
BuildActorCurves(L, actor, movies) ==
    IF Len(movies) = 0 THEN L
    ELSE LET r == GetMoviePoint(L, movies[1], 0)
         IN  CurveLoop(r.L, actor, movies, 2, r.p)

\* --------------------------------------------------------- overlap resolver
\* Faulty variant: actorIndex / 2 for (actorIndex + 1) / 2.
OffsetAmountHalfIndex(actorIndex) ==
    IF actorIndex = 0 THEN 0
    ELSE (actorIndex \div 2) * (IF actorIndex % 2 = 0 THEN -1 ELSE 1)

\* Faulty variant: the sides of even and odd indices exchanged.
OffsetAmountSidesExchanged(actorIndex) ==
    IF actorIndex = 0 THEN 0
    ELSE ((actorIndex + 1) \div 2) * (IF actorIndex % 2 = 0 THEN 1 ELSE -1)

\* offsetAmount in units of offsetIncrement = 0.05; actorIndex is unsigned.
OffsetAmount(actorIndex) ==
    IF actorIndex = 0 THEN 0
    ELSE ((actorIndex + 1) \div 2) * (IF actorIndex % 2 = 0 THEN -1 ELSE 1)

\* offsetAmount * offsetDirection, the direction still to be normalized.
OffsetVector(actorIndex, offsetDirection) ==
    <<OffsetAmount(actorIndex)>> \o offsetDirection

\* Faulty variant: the anchors shifted with the rest of the two halves.
DivergedCurvesShiftsAnchors(actorCurve, actorIndex, offsetDirection) ==
    LET offsetVector == OffsetVector(actorIndex, offsetDirection)
        bp == SubdivideAtHalf(actorCurve.curves[1])
        b1 == bp[1]
        b2 == bp[2]
        newB1 == BezierCurve(PlusOffset(b1.P0, offsetVector), PlusOffset(b1.P1, offsetVector),
                             PlusOffset(b1.P2, offsetVector), PlusOffset(b1.P3, offsetVector))
        newB2 == BezierCurve(PlusOffset(b2.P0, offsetVector), PlusOffset(b2.P1, offsetVector),
                             PlusOffset(b2.P2, offsetVector), PlusOffset(b2.P3, offsetVector))
    IN  <<newB1, newB2>>

\* The pair of curves setCurves() receives for the curve at actorIndex.
DivergedCurves(actorCurve, actorIndex, offsetDirection) ==
    LET offsetVector == OffsetVector(actorIndex, offsetDirection)
        bp == SubdivideAtHalf(actorCurve.curves[1])
        b1 == bp[1]
        b2 == bp[2]
        newB1 == BezierCurve(b1.P0, b1.P1, PlusOffset(b1.P2, offsetVector),
                             PlusOffset(b1.P3, offsetVector))
        newB2 == BezierCurve(PlusOffset(b2.P0, offsetVector),
                             PlusOffset(b2.P1, offsetVector), b2.P2, b2.P3)
    IN  <<newB1, newB2>>

\* Faulty variant: size() < 1 for size() <= 1.
SkipsGroupOnlyIfEmpty(actorCurveVector) == Len(actorCurveVector) < 1

\* Whether the loop over the map's entries skips this one.
SkipsGroup(actorCurveVector) == Len(actorCurveVector) <= 1

\* Faulty variant: actorIndex not set to 0 for each entry of the map, so that it
\* counts on from the curves of the entries visited before.
DivergeGroupIndexCountsOn(L, moviePair) ==
    LET actorCurveVector == L.actorCurvesByMoviePair[moviePair]
        actorIndex0 == Cardinality({c \in DOMAIN L.actorCurves : Len(L.actorCurves[c].curves) = 2})
    IN  IF SkipsGroup(actorCurveVector) THEN L
        ELSE LET r1 == GetMoviePoint(L, moviePair[1], 0)
                 r2 == GetMoviePoint(r1.L, moviePair[2], 0)
                 m1 == r1.p
                 m2 == r2.p
                 v == [x |-> m2.x - m1.x, y |-> m2.y - m1.y, z |-> m2.z - m1.z]
                 offsetDirection == <<-v.y, v.x, v.z>>
                 L2 == r2.L
             IN  [L2 EXCEPT !.actorCurves =
                     [c \in DOMAIN L2.actorCurves |->
                         IF \E i \in 1..Len(actorCurveVector) : actorCurveVector[i] = c
                         THEN LET i == CHOOSE i \in 1..Len(actorCurveVector) :
                                           actorCurveVector[i] = c
                              IN  [L2.actorCurves[c] EXCEPT !.curves =
                                      DivergedCurves(L2.actorCurves[c], actorIndex0 + i - 1,
                                                     offsetDirection)]
                         ELSE L2.actorCurves[c]]]

\* One pass of the outer loop of divergeOverlappingCurves: the entry at
\* moviePair.
DivergeGroup(L, moviePair) ==
    LET actorCurveVector == L.actorCurvesByMoviePair[moviePair]
    IN  IF SkipsGroup(actorCurveVector) THEN L
        ELSE LET r1 == GetMoviePoint(L, moviePair[1], 0)
                 r2 == GetMoviePoint(r1.L, moviePair[2], 0)
                 m1 == r1.p
                 m2 == r2.p
                 v == [x |-> m2.x - m1.x, y |-> m2.y - m1.y, z |-> m2.z - m1.z]
                 offsetDirection == <<-v.y, v.x, v.z>>
                 L2 == r2.L
             IN  [L2 EXCEPT !.actorCurves =
                     [c \in DOMAIN L2.actorCurves |->
                         IF \E i \in 1..Len(actorCurveVector) : actorCurveVector[i] = c
                         THEN LET i == CHOOSE i \in 1..Len(actorCurveVector) :
                                           actorCurveVector[i] = c
                              IN  [L2.actorCurves[c] EXCEPT !.curves =
                                      DivergedCurves(L2.actorCurves[c], i - 1, offsetDirection)]
                         ELSE L2.actorCurves[c]]]

\* The orders in which a hash map with these keys may be iterated.
IterationOrders(keys) ==
    {order \in [1..Cardinality(keys) -> keys] :
        \A i, j \in 1..Cardinality(keys) : i # j => order[i] # order[j]}

\* divergeOverlappingCurves from the i-th entry of the iteration on.
RECURSIVE DivergeFrom(_, _, _)
DivergeFrom(L, order, i) ==
    IF i > Len(order) THEN L
    ELSE DivergeFrom(DivergeGroup(L, order[i]), order, i + 1)

\* ---------------------------------------------------------------- actions
Install(L) ==
    /\ directorXPositions' = L.directorXPositions
    /\ actorCurves' = L.actorCurves
    /\ actorCurvesByActor' = L.actorCurvesByActor
    /\ actorCurvesByMoviePair' = L.actorCurvesByMoviePair
    /\ queryLog' = L.queryLog

Init ==
    /\ model \in Models
    /\ directorXPositions = EmptyMap
    /\ actorCurves = <<>>
    /\ actorCurvesByActor = EmptyMap
    /\ actorCurvesByMoviePair = EmptyMap
    /\ pc = "actors"
    /\ actorsIter = 1
    /\ sortedMovies = [a \in Actors |-> <<>>]
    /\ queryLog = <<>>
    /\ datePositions = <<>>

\* init(): one pass of the loop over model->getActors().
InitActorCurves ==
    /\ pc = "actors"
    /\ actorsIter <= NumActors
    /\ \E sorted \in SortResults(model.moviesStarredIn[actorsIter]) :
          /\ Install(BuildActorCurves(Layout, actorsIter, sorted))
          /\ sortedMovies' = [sortedMovies EXCEPT ![actorsIter] = sorted]
    /\ actorsIter' = actorsIter + 1
    /\ pc' = IF actorsIter = NumActors THEN "diverge" ELSE "actors"
    /\ UNCHANGED <<model, datePositions>>

\* init(): divergeOverlappingCurves(), the hash map iterated in the order the
\* hash table has; then init() returns.
DivergeOverlappingCurves ==
    /\ pc = "diverge"
    /\ \E order \in IterationOrders(DOMAIN actorCurvesByMoviePair) :
          Install(DivergeFrom(Layout, order, 1))
    /\ pc' = "done"
    /\ UNCHANGED <<model, actorsIter, sortedMovies, datePositions>>

Next == InitActorCurves \/ DivergeOverlappingCurves

Spec == Init /\ [][Next]_vars

\* ------------------------------------------- getDateYPosition on its own
\* The dates of the calibration window.
WindowDates ==
    {d \in (EARLIEST_YEAR..LATEST_YEAR) \X (1..366) : d[2] <= DaysInYear(d[1])}

NextDay(d) == IF d[2] < DaysInYear(d[1]) THEN <<d[1], d[2] + 1>> ELSE <<d[1] + 1, 1>>

SameDayNextYear(d) == <<d[1] + 1, d[2]>>

InitDates ==
    /\ model = [releaseDate |-> EmptyMap, director |-> EmptyMap, moviesStarredIn |-> EmptyMap]
    /\ directorXPositions = EmptyMap
    /\ actorCurves = <<>>
    /\ actorCurvesByActor = EmptyMap
    /\ actorCurvesByMoviePair = EmptyMap
    /\ pc = "done"
    /\ actorsIter = NumActors + 1
    /\ sortedMovies = [a \in Actors |-> <<>>]
    /\ queryLog = <<>>
    /\ datePositions = <<>>

\* getDateYPosition called for a date of the window and for a later one.
GetDateYPositions ==
    /\ datePositions = <<>>
    /\ \E d1 \in WindowDates : \E d2 \in {NextDay(d1), SameDayNextYear(d1)} \cap WindowDates :
          datePositions' = <<<<d1, GetDateYPosition(d1)>>, <<d2, GetDateYPosition(d2)>>>>
    /\ UNCHANGED <<model, directorXPositions, actorCurves, actorCurvesByActor,
                   actorCurvesByMoviePair, pc, actorsIter, sortedMovies, queryLog>>

SpecDates == InitDates /\ [][GetDateYPositions]_vars

\* ----------------------------------------------------- reading the layout
\* The actors init() has called initActorCurves for.
ActorsDone == 1..(actorsIter - 1)

\* getMoviePoint(movie, 0.0) read off the director table as it stands.
MoviePointOf(movie) ==
    Point3d(directorXPositions[model.director[movie]],
            GetDateYPosition(model.releaseDate[movie]), 0)

CurveIds == DOMAIN actorCurves
CurvesOf(c) == actorCurves[c].curves
StartAnchor(c) == CurvesOf(c)[1].P0
EndAnchor(c) == CurvesOf(c)[Len(CurvesOf(c))].P3

\* The map entry of a curve, its vector there and its index in it (from 0).
PairOf(c) ==
    CHOOSE k \in DOMAIN actorCurvesByMoviePair :
        \E i \in 1..Len(actorCurvesByMoviePair[k]) : actorCurvesByMoviePair[k][i] = c
GroupOf(c) == actorCurvesByMoviePair[PairOf(c)]
IndexInGroup(c) == (CHOOSE i \in 1..Len(GroupOf(c)) : GroupOf(c)[i] = c) - 1

\* The offset vector a split curve carries at its junction.
OffsetOf(c) == CurvesOf(c)[1].P3.off

\* (-v.y, v.x, v.z) for v = m2 - m1, the points of the pair's movies.
PerpendicularOf(moviePair) ==
    LET m1 == MoviePointOf(moviePair[1])
        m2 == MoviePointOf(moviePair[2])
    IN  <<-(m2.y - m1.y), m2.x - m1.x, m2.z - m1.z>>

\* ------------------------------------------------------------------ claims

\* C1: after init(), an actor with no movie or one movie has no curves, and an
\* actor with N >= 2 movies has exactly N-1, the j-th running from the point
\* of the j-th movie of the date-sorted list to the point of the (j+1)-th.
C1_CurvesPerActor ==
    pc = "done" =>
        \A a \in Actors :
            LET movies == model.moviesStarredIn[a]
                sorted == sortedMovies[a]
                curves == GetActorCurves(a)
            IN  /\ Len(movies) <= 1 => curves = <<>>
                /\ Len(movies) >= 2 =>
                      /\ IsSortOf(sorted, movies)
                      /\ Len(curves) = Len(movies) - 1
                      /\ \A j \in 1..Len(curves) :
                            /\ actorCurves[curves[j]].actor = a
                            /\ StartAnchor(curves[j]) = MoviePointOf(sorted[j])
                            /\ EndAnchor(curves[j]) = MoviePointOf(sorted[j + 1])

C1_Witness ==
    /\ pc = "done"
    /\ \E a1, a2, a3 \in Actors :
          /\ Len(model.moviesStarredIn[a1]) = 0
          /\ Len(model.moviesStarredIn[a2]) = 1
          /\ Len(model.moviesStarredIn[a3]) = 3
          /\ Len(GetActorCurves(a3)) = 2

\* C2: in a group of two or more curves the curve at index i is offset along
\* the perpendicular of the pair's movies by 0 for i = 0 and else by
\* (i+1) div 2 increments, negative for even i and positive for odd i.
C2_OffsetByIndex ==
    pc = "done" =>
        \A c \in CurveIds :
            Len(GroupOf(c)) >= 2 =>
                LET i == IndexInGroup(c)
                    amount == IF i = 0 THEN 0
                              ELSE IF i % 2 = 0 THEN -((i + 1) \div 2)
                              ELSE (i + 1) \div 2
                IN  OffsetOf(c) = <<amount>> \o PerpendicularOf(PairOf(c))

C2_Witness ==
    /\ pc = "done"
    /\ \E c \in CurveIds : IndexInGroup(c) >= 2 /\ OffsetOf(c)[1] < 0
    /\ \E c \in CurveIds : IndexInGroup(c) = 1 /\ OffsetOf(c)[1] > 0

\* C3, as claimed: in a group of three curves the offsets are 0 for index 0,
\* one increment to the negative side for index 1 and one to the positive
\* side for index 2.
C3_AsClaimed ==
    pc = "done" =>
        \A c \in CurveIds :
            Len(GroupOf(c)) = 3 =>
                OffsetOf(c)[1] = (CASE IndexInGroup(c) = 0 -> 0
                                    [] IndexInGroup(c) = 1 -> -1
                                    [] IndexInGroup(c) = 2 -> 1)

\* C3, amended: in a group of three curves the offsets are 0 for index 0, one
\* increment to the positive side for index 1 and one to the negative side
\* for index 2.
C3_GroupOfThree ==
    pc = "done" =>
        \A c \in CurveIds :
            Len(GroupOf(c)) = 3 =>
                OffsetOf(c)[1] = (CASE IndexInGroup(c) = 0 -> 0
                                    [] IndexInGroup(c) = 1 -> 1
                                    [] IndexInGroup(c) = 2 -> -1)

C3_Witness ==
    /\ pc = "done"
    /\ \E k \in DOMAIN actorCurvesByMoviePair :
          /\ Len(actorCurvesByMoviePair[k]) = 3
          /\ \A i \in 1..3 : Len(CurvesOf(actorCurvesByMoviePair[k][i])) = 2

\* C4: a curve the resolver rewrites keeps the start anchor and the end anchor
\* of its single curve, its two halves meet, and of the control points of the
\* subdivision only P2, P3 of the first half and P0, P1 of the second half
\* are shifted, all by one offset vector.
C4_AnchorsKept ==
    [][\A c \in CurveIds :
          actorCurves'[c] # actorCurves[c] =>
              LET old == actorCurves[c].curves[1]
                  new == actorCurves'[c].curves
                  bp == SubdivideAtHalf(old)
                  offsetVector == new[1].P3.off
              IN  /\ Len(new) = 2
                  /\ new[1].P0 = old.P0
                  /\ new[2].P3 = old.P3
                  /\ new[1].P3 = new[2].P0
                  /\ offsetVector # <<>>
                  /\ new[1] = BezierCurve(bp[1].P0, bp[1].P1,
                                          PlusOffset(bp[1].P2, offsetVector),
                                          PlusOffset(bp[1].P3, offsetVector))
                  /\ new[2] = BezierCurve(PlusOffset(bp[2].P0, offsetVector),
                                          PlusOffset(bp[2].P1, offsetVector),
                                          bp[2].P2, bp[2].P3)]_vars

C4_Witness ==
    /\ pc = "done"
    /\ \E c \in CurveIds :
          /\ Len(CurvesOf(c)) = 2
          /\ OffsetOf(c)[1] # 0
          /\ StartAnchor(c).off = <<>>
          /\ EndAnchor(c).off = <<>>
          /\ StartAnchor(c).y # EndAnchor(c).y

\* C5: curves are rewritten only by the resolver, after initActorCurves ran
\* for every actor, each at most once and only while it is a single curve in
\* a group of two or more; when init() finishes the curves of groups of one
\* are single and the curves of groups of two or more are two halves running
\* from the start anchor to the end anchor of the curve built.
C5_SplitOnce ==
    /\ [](pc = "done" =>
            \A c \in CurveIds :
                /\ Len(GroupOf(c)) <= 1 => Len(CurvesOf(c)) = 1
                /\ Len(GroupOf(c)) >= 2 => Len(CurvesOf(c)) = 2)
    /\ [][\A c \in CurveIds :
            actorCurves'[c] # actorCurves[c] =>
                /\ pc = "diverge" /\ pc' = "done"
                /\ actorsIter > NumActors
                /\ Len(GroupOf(c)) >= 2
                /\ Len(actorCurves[c].curves) = 1
                /\ Len(actorCurves'[c].curves) = 2
                /\ actorCurves'[c].curves[1].P0 = actorCurves[c].curves[1].P0
                /\ actorCurves'[c].curves[2].P3 = actorCurves[c].curves[1].P3]_vars

C5_Witness ==
    /\ pc = "done"
    /\ \E c \in CurveIds : Len(GroupOf(c)) = 1 /\ Len(CurvesOf(c)) = 1
    /\ \E c \in CurveIds : Len(GroupOf(c)) >= 2 /\ Len(CurvesOf(c)) = 2

\* C6: for dates d1 < d2 of the calibration window the position of d1 is
\* strictly below the position of d2.
C6_DateMonotonic ==
    datePositions # <<>> =>
        (DateLess(datePositions[1][1], datePositions[2][1])
            => datePositions[1][2] < datePositions[2][2])

\* The directors queried, and for one of them the number of distinct
\* directors queried before its first query.
QueriedDirectors == {queryLog[i][1] : i \in 1..Len(queryLog)}
FirstQuery(director) ==
    CHOOSE i \in 1..Len(queryLog) :
        /\ queryLog[i][1] = director
        /\ \A j \in 1..(i - 1) : queryLog[j][1] # director
QueryRank(director) ==
    Cardinality({queryLog[j][1] : j \in 1..(FirstQuery(director) - 1)})

\* C7: the n-th distinct director to be queried (n from 0) gets 4.0 * n; each
\* query returns the position of its director; the table holds the directors
\* queried and no entry of it is ever removed or altered.
C7_DirectorPositions ==
    /\ [](/\ DOMAIN directorXPositions = QueriedDirectors
          /\ \A d \in QueriedDirectors : directorXPositions[d] = DISTANCE * QueryRank(d)
          /\ \A i \in 1..Len(queryLog) :
                queryLog[i][2] = DISTANCE * QueryRank(queryLog[i][1]))
    /\ [][\A d \in DOMAIN directorXPositions :
            /\ d \in DOMAIN directorXPositions'
            /\ directorXPositions'[d] = directorXPositions[d]]_vars

C7_Witness ==
    /\ pc = "done"
    /\ Cardinality(QueriedDirectors) = 3
    /\ \E i, j \in 1..Len(queryLog) :
          /\ i < j
          /\ queryLog[i][1] = queryLog[j][1]
          /\ queryLog[j][2] = 2 * DISTANCE

\* The delta of the handles of a curve still single, and the delta an
\* undampened pair gets.
HandleDelta(c) == CurvesOf(c)[1].P1.y - CurvesOf(c)[1].P0.y
UndampenedDelta(c) == ClampDelta(CurvesOf(c)[1].P3.y - CurvesOf(c)[1].P0.y)

\* C8: the curve of a consecutive pair (prev, curr) of the sorted list is
\* dampened only when the directors of both resolve and are the same person.
C8_DampenOnlySameResolved ==
    pc # "done" =>
        \A a \in ActorsDone : \A j \in 1..Len(GetActorCurves(a)) :
            LET prev == model.director[sortedMovies[a][j]]
                curr == model.director[sortedMovies[a][j + 1]]
                c == GetActorCurves(a)[j]
            IN  (prev = NullPerson \/ curr = NullPerson \/ prev # curr)
                    => HandleDelta(c) = UndampenedDelta(c)

\* The sort of a list that keeps movies of equal release date in the order
\* of the list.
IsStableSortOf(s, movies) ==
    /\ IsSortOf(s, movies)
    /\ \A i, j \in 1..Len(movies) :
          (/\ i < j
           /\ ~WeakPtrReleaseDateSortPredicate(movies[i], movies[j])
           /\ ~WeakPtrReleaseDateSortPredicate(movies[j], movies[i]))
          => \E k, l \in 1..Len(s) : k < l /\ s[k] = movies[i] /\ s[l] = movies[j]

\* C9: the order initActorCurves walks an actor's movies in is the stable
\* sort by release date of the actor's list.
C9_SortStable ==
    \A a \in ActorsDone : IsStableSortOf(sortedMovies[a], model.moviesStarredIn[a])

\* What the resolver leaves of a curve, whichever entries it visited before.
Resolved(c) ==
    IF Len(GroupOf(c)) <= 1 THEN actorCurves[c]
    ELSE [actorCurves[c] EXCEPT !.curves =
             DivergedCurves(actorCurves[c], IndexInGroup(c), PerpendicularOf(PairOf(c)))]

\* C10: the resolver finds assigned every director it asks the position of,
\* leaves the director table as it is, and leaves every curve the same
\* geometry for every order in which the map's entries are visited.
C10_OrderIndependent ==
    [][pc = "diverge" =>
          /\ \A k \in DOMAIN actorCurvesByMoviePair :
                Len(actorCurvesByMoviePair[k]) >= 2 =>
                    {model.director[k[1]], model.director[k[2]]}
                        \subseteq DOMAIN directorXPositions
          /\ directorXPositions' = directorXPositions
          /\ actorCurves' = [c \in CurveIds |-> Resolved(c)]]_vars

C10_Witness ==
    /\ pc = "done"
    /\ Cardinality({k \in DOMAIN actorCurvesByMoviePair :
                       Len(actorCurvesByMoviePair[k]) >= 2}) >= 2
    /\ Len(queryLog) > 4

====
